---- MODULE Spec2Model ----
(***************************************************************************)
(* git-dirupdate: bulk update of the git repositories found under a root   *)
(* directory.  The repository holds two generations of the command:        *)
(*   - the current root.go (src/unnamed/part_001, lines 186-480): free     *)
(*     functions stashIfDirty / fetchBranchesToUpdate / updateBranch and   *)
(*     a pterm spinner as status reporter;                                 *)
(*   - the first root.go (src/unnamed/part_001, lines 1-184) built on the  *)
(*     repository type of src/git-dirupdate/cmd/repository.go.             *)
(* Both are modelled; the variable "variant" says which one runs.  The     *)
(* definitions of the first generation carry the prefix v1_ (root.go) or   *)
(* repository_ (methods of the repository type).                           *)
(*                                                                         *)
(* Every git subprocess is one step whose exit status and output are       *)
(* chosen by the environment.  Strings are Go strings; "\n" and "\t" are   *)
(* the newline and the tab.                                                *)
(***************************************************************************)
EXTENDS Integers, Sequences, FiniteSets, TLC

VARIABLES
    variant,            \* "new" (current root.go) or "v1" (first root.go + repository.go)
    stashChanges,       \* flag --stash-changes
    allBranches,        \* flag --all-branches
    requestedBranches,  \* flag --branch (a string slice)
    rpc,                \* position of RunE: "find", "confirm", "loop", "returned"
    nrepos,             \* how many repositories find discovered; they are 1..nrepos in find's order
    idx,                \* index of the range loop over repositories
    processed,          \* the repositories updateRepository was called on, in call order
    prevOutcome,        \* outcome of the repository processed before the current one
    consent,            \* the confirmation: "unasked", "yes", "no", "err"
    runErr,             \* what RunE returned: "none" (still running), "nil", "err"
    pc,                 \* position of updateRepository
    log,                \* the git subprocesses issued for the current repository, in order
    remoteUpdated,      \* repository.remoteUpdated (v1)
    activeBranches,     \* the branches selected for update
    bi,                 \* index of the range loop over activeBranches
    failedUpdates,      \* failedUpdates of updateRepository
    events,             \* what was reported for the current repository, in order
    ret                 \* what updateRepository returned: "none", "nil", an error

cfgVars == <<variant, stashChanges, allBranches, requestedBranches>>
runVars == <<rpc, nrepos, idx, processed, prevOutcome, consent, runErr>>
passVars == <<pc, log, remoteUpdated, activeBranches, bi, failedUpdates, events, ret>>
vars == <<cfgVars, runVars, passVars>>

----------------------------------------------------------------------------
(* Bounds of the model *)

\* longest branch listing (in lines) of the per-repository specification
MaxLines == 3
\* longest --branch list
MaxNames == 2
\* largest number of discovered repositories below the confirmation gate
MaxRepos == 2
\* longest branch listing (in lines) of the run specification
MaxRunLines == 2
\* longest branch listing (in lines) of the listing-parser specification
MaxRawLines == 3

\* warnThreshold of the current root.go
warnThreshold == 10
\* warnThreshold of the first root.go
v1_warnThreshold == 100

----------------------------------------------------------------------------
(* Go's strings package, as far as the program uses it *)

HasPrefix(s, prefix) ==
    Len(s) >= Len(prefix) /\ SubSeq(s, 1, Len(prefix)) = prefix

Contains(s, substr) ==
    \E i \in 1..(Len(s) - Len(substr) + 1) : SubSeq(s, i, i + Len(substr) - 1) = substr

\* strings.Split(s, "\n"): the pieces between the newlines, empty ones included;
\* n + 1 pieces for n newlines, so an output ending in "\n" yields a last piece "".
RECURSIVE SplitFrom(_, _, _)
SplitFrom(s, i, cur) ==
    IF i > Len(s) THEN <<cur>>
    ELSE IF SubSeq(s, i, i) = "\n" THEN <<cur>> \o SplitFrom(s, i + 1, "")
    ELSE SplitFrom(s, i + 1, cur \o SubSeq(s, i, i))

Split(s) == SplitFrom(s, 1, "")

Range(s) == {s[i] : i \in 1..Len(s)}

----------------------------------------------------------------------------
(* Inputs: what the flags and the git subprocesses can deliver *)

\* duplicate-free sequences over S of length at most n
SeqsNoDup(S, n) ==
    {s \in UNION {[1..k -> S] : k \in 0..n} : \A i, j \in 1..Len(s) : s[i] = s[j] => i = j}

\* all sequences over S of length at most n
SeqsUpTo(S, n) == UNION {[1..k -> S] : k \in 0..n}

\* git prints one line per branch, each ended by a newline
RECURSIVE Unlines(_)
Unlines(lines) ==
    IF Len(lines) = 0 THEN "" ELSE lines[1] \o "\n" \o Unlines(Tail(lines))

BranchLines == {"main", "dev", "fix", "origin/main"}
RunBranchLines == {"main", "dev"}
RawLines ==
    {"main", "dev", "", "refs/heads/main", "heads/dev", "origin/main", "  ", "* main",
     "(HEAD detached at 1a2b3c)"}

Listings == {Unlines(l) : l \in SeqsNoDup(BranchLines, MaxLines)}
RunListings == {Unlines(l) : l \in SeqsNoDup(RunBranchLines, MaxRunLines)}
RawListings == {Unlines(l) : l \in SeqsNoDup(RawLines, MaxRawLines)}

\* values of --branch: any order, repetitions, names a repository may lack
BranchFlags == SeqsUpTo({"main", "dev"}, MaxNames)
RunBranchFlags == {<<"main">>, <<"main", "master">>}

\* outputs of git status --porcelain
StatusOutputs == {"", "?? x.tmp\n"}

----------------------------------------------------------------------------
(* Records of the trace *)

\* one git subprocess: the function that ran it, its subcommand, its argument,
\* whether it exited with 0, and its output where the program reads it
Cmd(caller, o, a, k, output) == [by |-> caller, op |-> o, arg |-> a, ok |-> k, out |-> output]

\* the exit statuses of a git subprocess: 0, or a failure (git exits with 1
\* on a refused checkout or a conflicting pull and with 128 on a fatal error)
ExitCodes == {0, 1, 128}

\* the text of the *exec.ExitError that Run returns for a non-zero exit status
ExitError(code) == "exit status " \o ToString(code)

\* one git subprocess of updateBranch, run with Run(): its exit status, and err,
\* the error updateBranch returns for it
Run(caller, o, a, status, e) ==
    [by |-> caller, op |-> o, arg |-> a, ok |-> status = 0, out |-> "",
     code |-> status, err |-> e]

\* one report: the spinner's calls (new), the printed lines (v1)
Ev(k, s, t, f) == [kind |-> k, succeeded |-> s, total |-> t, failed |-> f]

----------------------------------------------------------------------------
(* The current root.go: pure parts *)

\* stashIfDirty without the test of stashChanges: a dirty repository is stashed
\* whatever the flag says
stashIfDirty_alwaysStash(err, changes) ==
    IF err THEN "exit"
    ELSE IF Len(changes) = 0 THEN "nil"
    ELSE "stash"

\* stashIfDirty that goes on without running git stash when stashing is enabled
stashIfDirty_neverStash(err, changes) ==
    IF err THEN "exit"
    ELSE IF Len(changes) = 0 THEN "nil"
    ELSE IF ~stashChanges THEN "errStashNotAllowed"
    ELSE "nil"

\* stashIfDirty without the test for an empty status output: with stashing
\* enabled git stash is run on a clean repository too
stashIfDirty_stashClean(err, changes) ==
    IF err THEN "exit"
    ELSE IF ~stashChanges THEN (IF Len(changes) = 0 THEN "nil" ELSE "errStashNotAllowed")
    ELSE "stash"

\* stashIfDirty, the decision after git status returned (changes, err):
\* "exit" (the status error), "nil" (clean), "errStashNotAllowed", or "stash"
\* (go on to run git stash).
stashIfDirty_decide(err, changes) ==
    IF err THEN "exit"
    ELSE IF Len(changes) = 0 THEN "nil"
    ELSE IF ~stashChanges THEN "errStashNotAllowed"
    ELSE "stash"

\* fetchBranchesToUpdate, the condition under which a listed line is skipped
isNoise(branch) ==
    \/ branch = ""
    \/ HasPrefix(branch, "refs/")
    \/ HasPrefix(branch, "heads/")
    \/ HasPrefix(branch, "origin/")
    \/ Contains(branch, " ")

\* fetchBranchesToUpdate, the inner loop over requestedBranches
RECURSIVE appendRequested(_, _, _)
appendRequested(branchesList, branch, names) ==
    IF Len(names) = 0 THEN branchesList
    ELSE appendRequested(
             IF branch = Head(names) THEN Append(branchesList, branch) ELSE branchesList,
             branch, Tail(names))

\* fetchBranchesToUpdate, the loop over the lines of the listing
RECURSIVE branchesListLoop(_, _)
branchesListLoop(branchesList, lines) ==
    IF Len(lines) = 0 THEN branchesList
    ELSE LET branch == Head(lines)
             next == IF isNoise(branch) THEN branchesList
                     ELSE IF ~allBranches
                          THEN appendRequested(branchesList, branch, requestedBranches)
                          ELSE Append(branchesList, branch)
         IN  branchesListLoop(next, Tail(lines))

\* fetchBranchesToUpdate without the test for an empty branchesList
fetchBranchesToUpdate_selectNoCheck(branches) ==
    [list |-> branchesListLoop(<<>>, Split(branches)), err |-> "nil"]

\* fetchBranchesToUpdate, from the listing's output to what it returns
fetchBranchesToUpdate_select(branches) ==
    LET branchesList == branchesListLoop(<<>>, Split(branches))
    IN  IF Len(branchesList) = 0
        THEN [list |-> <<>>, err |-> "errNoBranch"]
        ELSE [list |-> branchesList, err |-> "nil"]

\* the report without the test for every branch having failed
aggregate_noFailed(active, failed) ==
    IF Len(failed) > 0
    THEN Ev("warning", Len(active) - Len(failed), Len(active), failed)
    ELSE Ev("success", Len(active), Len(active), <<>>)

\* updateRepository, the report after the loop over activeBranches
aggregate(active, failed) ==
    IF Len(failed) = Len(active) THEN Ev("fail", 0, 0, <<>>)
    ELSE IF Len(failed) > 0
         THEN Ev("warning", Len(active) - Len(failed), Len(active), failed)
         ELSE Ev("success", Len(active), Len(active), <<>>)

\* the report that takes every error for a skip
errorReport_allSkipped(err) ==
    IF err = "errNoBranch" THEN Ev("nobranch", 0, 0, <<>>)
    ELSE Ev("skipped", 0, 0, <<>>)

\* updateRepository, the report for an error of stashIfDirty or fetchBranchesToUpdate
errorReport(err) ==
    IF err = "errStashNotAllowed" THEN Ev("skipped", 0, 0, <<>>)
    ELSE IF err = "errNoBranch" THEN Ev("nobranch", 0, 0, <<>>)
    ELSE Ev("fail", 0, 0, <<>>)

----------------------------------------------------------------------------
(* The current root.go: updateRepository, one step per git subprocess *)

\* updateRepository returning err without the report for it
Return_noReport(err) ==
    /\ ret' = err
    /\ pc' = "ret"
    /\ UNCHANGED events

\* updateRepository returns err after reporting it
Return(err) ==
    /\ events' = Append(events, errorReport(err))
    /\ ret' = err
    /\ pc' = "ret"

\* the end of one iteration of the loop over activeBranches, failed being
\* failedUpdates after it: the next branch, or the report and return nil
NextBranch(failed) ==
    /\ failedUpdates' = failed
    /\ IF bi < Len(activeBranches)
       THEN /\ bi' = bi + 1
            /\ pc' = "checkout"
            /\ UNCHANGED <<events, ret>>
       ELSE /\ bi' = bi
            /\ events' = Append(events, aggregate(activeBranches, failed))
            /\ ret' = "nil"
            /\ pc' = "ret"

\* updateRepository is entered: the spinner starts
updateRepository_start ==
    /\ variant = "new"
    /\ pc = "start"
    /\ events' = <<Ev("start", 0, 0, <<>>)>>
    /\ pc' = "status"
    /\ UNCHANGED <<log, remoteUpdated, activeBranches, bi, failedUpdates, ret>>
    /\ UNCHANGED <<cfgVars, runVars>>

\* stashIfDirty: git status --porcelain, and what follows from it
stashIfDirty_status ==
    /\ variant = "new"
    /\ pc = "status"
    /\ \E err \in BOOLEAN, changes \in StatusOutputs :
          LET r == stashIfDirty_decide(err, changes) IN
          /\ log' = Append(log, Cmd("stashIfDirty", "status", "", ~err, IF err THEN "" ELSE changes))
          /\ IF r = "stash" THEN pc' = "stash" /\ UNCHANGED <<events, ret>>
             ELSE IF r = "nil" THEN pc' = "fetch" /\ UNCHANGED <<events, ret>>
             ELSE Return(r)
    /\ UNCHANGED <<remoteUpdated, activeBranches, bi, failedUpdates>>
    /\ UNCHANGED <<cfgVars, runVars>>

\* stashIfDirty: git stash
stashIfDirty_stash ==
    /\ variant = "new"
    /\ pc = "stash"
    /\ \E ok \in BOOLEAN :
          /\ log' = Append(log, Cmd("stashIfDirty", "stash", "", ok, ""))
          /\ IF ok THEN pc' = "fetch" /\ UNCHANGED <<events, ret>>
             ELSE Return("exit")
    /\ UNCHANGED <<remoteUpdated, activeBranches, bi, failedUpdates>>
    /\ UNCHANGED <<cfgVars, runVars>>

\* fetchBranchesToUpdate: git fetch --all
fetchBranchesToUpdate_fetch ==
    /\ variant = "new"
    /\ pc = "fetch"
    /\ \E ok \in BOOLEAN :
          /\ log' = Append(log, Cmd("fetchBranchesToUpdate", "fetch", "", ok, ""))
          /\ IF ok THEN pc' = "list" /\ UNCHANGED <<events, ret>>
             ELSE Return("exit")
    /\ UNCHANGED <<remoteUpdated, activeBranches, bi, failedUpdates>>
    /\ UNCHANGED <<cfgVars, runVars>>

\* fetchBranchesToUpdate: git branch -l --format=%(refname:short), the selection,
\* and the start of the loop over activeBranches
fetchBranchesToUpdate_list(outputs) ==
    /\ variant = "new"
    /\ pc = "list"
    /\ \/ /\ log' = Append(log, Cmd("fetchBranchesToUpdate", "branch", "", FALSE, ""))
          /\ Return("exit")
          /\ UNCHANGED <<activeBranches, bi, failedUpdates>>
       \/ \E branches \in outputs :
             LET r == fetchBranchesToUpdate_select(branches) IN
             /\ log' = Append(log, Cmd("fetchBranchesToUpdate", "branch", "", TRUE, branches))
             /\ IF r.err # "nil"
                THEN /\ Return(r.err)
                     /\ UNCHANGED <<activeBranches, bi, failedUpdates>>
                ELSE /\ activeBranches' = r.list
                     /\ bi' = 1
                     /\ failedUpdates' = <<>>
                     /\ pc' = "checkout"
                     /\ UNCHANGED <<events, ret>>
    /\ UNCHANGED remoteUpdated
    /\ UNCHANGED <<cfgVars, runVars>>

\* updateBranch returning an error that names the step it comes from
updateBranch_err_wrapped(step, code) ==
    IF code = 0 THEN "nil" ELSE step \o ": " \o ExitError(code)

\* updateBranch, the error it returns for a step that exited with code: the
\* error of Run as it is
updateBranch_err(step, code) == IF code = 0 THEN "nil" ELSE ExitError(code)

\* updateBranch that runs the pull whatever the checkout returned
updateBranch_checkout_thenPull ==
    /\ variant = "new"
    /\ pc = "checkout"
    /\ \E code \in ExitCodes :
          /\ log' = Append(log, Run("updateBranch", "checkout", activeBranches[bi], code,
                                    updateBranch_err("checkout", code)))
          /\ pc' = "pull"
          /\ UNCHANGED <<bi, failedUpdates, events, ret>>
    /\ UNCHANGED <<remoteUpdated, activeBranches>>
    /\ UNCHANGED <<cfgVars, runVars>>

\* updateBranch: git checkout <branch>
updateBranch_checkout ==
    /\ variant = "new"
    /\ pc = "checkout"
    /\ \E code \in ExitCodes :
          LET err == updateBranch_err("checkout", code) IN
          /\ log' = Append(log, Run("updateBranch", "checkout", activeBranches[bi], code, err))
          /\ IF err = "nil"
             THEN pc' = "pull" /\ UNCHANGED <<bi, failedUpdates, events, ret>>
             ELSE NextBranch(Append(failedUpdates, activeBranches[bi]))
    /\ UNCHANGED <<remoteUpdated, activeBranches>>
    /\ UNCHANGED <<cfgVars, runVars>>

\* updateBranch: git pull
updateBranch_pull ==
    /\ variant = "new"
    /\ pc = "pull"
    /\ \E code \in ExitCodes :
          LET err == updateBranch_err("pull", code) IN
          /\ log' = Append(log, Run("updateBranch", "pull", "", code, err))
          /\ NextBranch(IF err = "nil" THEN failedUpdates
                        ELSE Append(failedUpdates, activeBranches[bi]))
    /\ UNCHANGED <<remoteUpdated, activeBranches>>
    /\ UNCHANGED <<cfgVars, runVars>>

----------------------------------------------------------------------------
(* The first root.go and repository.go: updateRepository, one step per git  *)
(* subprocess                                                               *)

\* repository.IsDirty followed by updateRepository's decision on (dirty, err):
\* "exit" (return the error), "stash", "skip" (dirty, skipping) or "fetch"
v1_dirtyDecide(err, changes) ==
    LET dirty == Len(changes) > 0 IN
    IF err THEN "exit"
    ELSE IF dirty THEN (IF stashChanges THEN "stash" ELSE "skip")
    ELSE "fetch"

\* repository.GetAllBranches, from the listing's output to branchesList
RECURSIVE repository_branchesList(_, _)
repository_branchesList(branchesList, lines) ==
    IF Len(lines) = 0 THEN branchesList
    ELSE repository_branchesList(
             IF Head(lines) = "" THEN branchesList ELSE Append(branchesList, Head(lines)),
             Tail(lines))

\* repository.updateBranch, the error it returns for a step that exited with
\* code: the error of Run as it is
repository_updateBranch_err(step, code) == IF code = 0 THEN "nil" ELSE ExitError(code)

\* repository.updateRemote: whether git fetch --all is run, and its result.
\* remoteUpdated is read here and assigned nowhere.
repository_updateRemote ==
    IF remoteUpdated
    THEN {[run |-> FALSE, ok |-> TRUE]}
    ELSE {[run |-> TRUE, ok |-> TRUE], [run |-> TRUE, ok |-> FALSE]}

\* updateRepository returns err; nothing is printed for it here
v1_Return(err) ==
    /\ ret' = err
    /\ pc' = "ret"
    /\ UNCHANGED events

\* repository.Update: the next branch of the loop, or return nil
v1_NextBranch ==
    IF bi < Len(activeBranches)
    THEN bi' = bi + 1 /\ pc' = "checkout" /\ UNCHANGED <<events, ret>>
    ELSE bi' = bi /\ v1_Return("nil")

\* updateRepository is entered: newRepository, and the path is printed
v1_updateRepository_start ==
    /\ variant = "v1"
    /\ pc = "start"
    /\ remoteUpdated' = FALSE
    /\ events' = <<Ev("start", 0, 0, <<>>)>>
    /\ pc' = "status"
    /\ UNCHANGED <<log, activeBranches, bi, failedUpdates, ret>>
    /\ UNCHANGED <<cfgVars, runVars>>

\* repository.IsDirty: git status --porcelain, and updateRepository's decision
repository_IsDirty ==
    /\ variant = "v1"
    /\ pc = "status"
    /\ \E err \in BOOLEAN, changes \in StatusOutputs :
          LET r == v1_dirtyDecide(err, changes) IN
          /\ log' = Append(log, Cmd("IsDirty", "status", "", ~err, IF err THEN "" ELSE changes))
          /\ IF r = "exit" THEN v1_Return("exit")
             ELSE IF r = "skip"
                  THEN /\ events' = Append(events, Ev("dirtyskip", 0, 0, <<>>))
                       /\ ret' = "nil"
                       /\ pc' = "ret"
                  ELSE pc' = r /\ UNCHANGED <<events, ret>>
    /\ UNCHANGED <<remoteUpdated, activeBranches, bi, failedUpdates>>
    /\ UNCHANGED <<cfgVars, runVars>>

\* repository.Stash: git stash
repository_Stash ==
    /\ variant = "v1"
    /\ pc = "stash"
    /\ \E ok \in BOOLEAN :
          /\ log' = Append(log, Cmd("Stash", "stash", "", ok, ""))
          /\ IF ok
             THEN /\ events' = Append(events, Ev("stashed", 0, 0, <<>>))
                  /\ pc' = "fetch"
                  /\ UNCHANGED ret
             ELSE v1_Return("exit")
    /\ UNCHANGED <<remoteUpdated, activeBranches, bi, failedUpdates>>
    /\ UNCHANGED <<cfgVars, runVars>>

\* updateRepository: git fetch --all, then activeBranches := *branches unless
\* --all-branches asks for GetAllBranches
v1_updateRepository_fetch ==
    /\ variant = "v1"
    /\ pc = "fetch"
    /\ \E ok \in BOOLEAN :
          /\ log' = Append(log, Cmd("updateRepository", "fetch", "", ok, ""))
          /\ IF ~ok THEN v1_Return("exit") /\ UNCHANGED activeBranches
             ELSE IF allBranches
                  THEN pc' = "getall" /\ UNCHANGED <<activeBranches, events, ret>>
                  ELSE /\ activeBranches' = requestedBranches
                       /\ events' = Append(events,
                                       Ev("updating", 0, Len(requestedBranches), <<>>))
                       /\ pc' = "update"
                       /\ UNCHANGED ret
    /\ UNCHANGED <<remoteUpdated, bi, failedUpdates>>
    /\ UNCHANGED <<cfgVars, runVars>>

\* repository.GetAllBranches: its call of updateRemote
repository_GetAllBranches_updateRemote ==
    /\ variant = "v1"
    /\ pc = "getall"
    /\ \E r \in repository_updateRemote :
          /\ log' = IF r.run THEN Append(log, Cmd("updateRemote", "fetch", "", r.ok, "")) ELSE log
          /\ IF r.ok THEN pc' = "getall_list" /\ UNCHANGED <<events, ret>>
             ELSE v1_Return("exit")
    /\ UNCHANGED <<remoteUpdated, activeBranches, bi, failedUpdates>>
    /\ UNCHANGED <<cfgVars, runVars>>

\* repository.GetAllBranches: git branch -l, and updateRepository's print
repository_GetAllBranches_list(outputs) ==
    /\ variant = "v1"
    /\ pc = "getall_list"
    /\ \/ /\ log' = Append(log, Cmd("GetAllBranches", "branch", "", FALSE, ""))
          /\ v1_Return("exit")
          /\ UNCHANGED activeBranches
       \/ \E branches \in outputs :
             LET branchesList == repository_branchesList(<<>>, Split(branches)) IN
             /\ log' = Append(log, Cmd("GetAllBranches", "branch", "", TRUE, branches))
             /\ activeBranches' = branchesList
             /\ events' = Append(events, Ev("updating", 0, Len(branchesList), <<>>))
             /\ pc' = "update"
             /\ UNCHANGED ret
    /\ UNCHANGED <<remoteUpdated, bi, failedUpdates>>
    /\ UNCHANGED <<cfgVars, runVars>>

\* repository.Update: its call of updateRemote, and the start of the loop
repository_Update_updateRemote ==
    /\ variant = "v1"
    /\ pc = "update"
    /\ \E r \in repository_updateRemote :
          /\ log' = IF r.run THEN Append(log, Cmd("updateRemote", "fetch", "", r.ok, "")) ELSE log
          /\ IF ~r.ok THEN v1_Return("exit") /\ UNCHANGED bi
             ELSE IF Len(activeBranches) = 0 THEN v1_Return("nil") /\ UNCHANGED bi
             ELSE bi' = 1 /\ pc' = "checkout" /\ UNCHANGED <<events, ret>>
    /\ UNCHANGED <<remoteUpdated, activeBranches, failedUpdates>>
    /\ UNCHANGED <<cfgVars, runVars>>

\* repository.updateBranch: git checkout <branch>
repository_updateBranch_checkout ==
    /\ variant = "v1"
    /\ pc = "checkout"
    /\ \E code \in ExitCodes :
          LET err == repository_updateBranch_err("checkout", code) IN
          /\ log' = Append(log, Run("updateBranch", "checkout", activeBranches[bi], code, err))
          /\ IF err = "nil" THEN pc' = "pull" /\ UNCHANGED <<bi, events, ret>>
             ELSE v1_Return(err) /\ UNCHANGED bi
    /\ UNCHANGED <<remoteUpdated, activeBranches, failedUpdates>>
    /\ UNCHANGED <<cfgVars, runVars>>

\* repository.updateBranch: git pull, and Update's loop
repository_updateBranch_pull ==
    /\ variant = "v1"
    /\ pc = "pull"
    /\ \E code \in ExitCodes :
          LET err == repository_updateBranch_err("pull", code) IN
          /\ log' = Append(log, Run("updateBranch", "pull", "", code, err))
          /\ IF err = "nil" THEN v1_NextBranch
             ELSE v1_Return(err) /\ UNCHANGED bi
    /\ UNCHANGED <<remoteUpdated, activeBranches, failedUpdates>>
    /\ UNCHANGED <<cfgVars, runVars>>

----------------------------------------------------------------------------
(* The outcome of a repository's pass, read off what was reported *)

HasEvent(k) == \E i \in 1..Len(events) : events[i].kind = k

\* Skipped, Failed, Partial or Success once updateRepository has returned.
\* The first root.go reports a skip by printing "dirty, skipping" and a failure
\* by returning the error, which cobra prints.
Outcome ==
    IF pc # "ret" THEN "none"
    ELSE IF variant = "new"
         THEN LET k == events[Len(events)].kind IN
              IF k \in {"skipped", "nobranch"} THEN "Skipped"
              ELSE IF k = "fail" THEN "Failed"
              ELSE IF k = "warning" THEN "Partial"
              ELSE "Success"
         ELSE IF HasEvent("dirtyskip") THEN "Skipped"
              ELSE IF ret # "nil" THEN "Failed"
              ELSE "Success"

----------------------------------------------------------------------------
(* Specification of one call of updateRepository *)

PassStart ==
    /\ pc = "start"
    /\ log = <<>>
    /\ remoteUpdated = FALSE
    /\ activeBranches = <<>>
    /\ bi = 0
    /\ failedUpdates = <<>>
    /\ events = <<>>
    /\ ret = "none"

Init ==
    /\ variant \in {"new", "v1"}
    /\ stashChanges \in BOOLEAN
    /\ allBranches \in BOOLEAN
    /\ requestedBranches \in BranchFlags
    /\ rpc = "loop"
    /\ nrepos = 1
    /\ idx = 1
    /\ processed = <<1>>
    /\ prevOutcome = "none"
    /\ consent = "unasked"
    /\ runErr = "none"
    /\ PassStart

Next ==
    \/ updateRepository_start
    \/ stashIfDirty_status
    \/ stashIfDirty_stash
    \/ fetchBranchesToUpdate_fetch
    \/ fetchBranchesToUpdate_list(Listings)
    \/ updateBranch_checkout
    \/ updateBranch_pull
    \/ v1_updateRepository_start
    \/ repository_IsDirty
    \/ repository_Stash
    \/ v1_updateRepository_fetch
    \/ repository_GetAllBranches_updateRemote
    \/ repository_GetAllBranches_list(Listings)
    \/ repository_Update_updateRemote
    \/ repository_updateBranch_checkout
    \/ repository_updateBranch_pull

Spec == Init /\ [][Next]_vars

----------------------------------------------------------------------------
(* RunE of the current root.go *)

\* numbers of repositories a root directory may hold: few, or around the gate
RepoCounts(threshold) == (0..MaxRepos) \cup {threshold, threshold + 1}

\* RunE returns err ("nil" or "err")
RunReturn(err) ==
    /\ runErr' = err
    /\ rpc' = "returned"

\* the pass over one repository is over: its locals are gone
PassIdle ==
    /\ pc' = "idle"
    /\ log' = <<>>
    /\ remoteUpdated' = FALSE
    /\ activeBranches' = <<>>
    /\ bi' = 0
    /\ failedUpdates' = <<>>
    /\ events' = <<>>
    /\ ret' = "none"

\* the range loop over repositories: call updateRepository on the next one, or
\* leave the loop and return nil
LoopStep ==
    IF idx <= nrepos
    THEN /\ processed' = Append(processed, idx)
         /\ pc' = "start"
         /\ UNCHANGED <<rpc, runErr>>
    ELSE /\ RunReturn("nil")
         /\ UNCHANGED <<processed, pc>>

\* RunE returning the error of updateRepository, as the first root.go does
RunE_afterUpdate_returnErr(err) == IF err # "nil" THEN "return" ELSE "continue"

\* what RunE does with the error updateRepository returned: the call is a bare
\* statement (nolint: errcheck), the loop continues
RunE_afterUpdate(err) == "continue"

\* RunE without the confirmation above warnThreshold
RunE_needsConfirm_never(n) == FALSE

\* RunE, the test that asks for the confirmation
RunE_needsConfirm(n) == n > warnThreshold

\* expandPathWithTilde, the spinner and findRepositories: an error of any of
\* them is returned; otherwise the repositories found
RunE_findRepositories ==
    /\ variant = "new"
    /\ rpc = "find"
    /\ \/ /\ RunReturn("err")
          /\ UNCHANGED nrepos
       \/ \E n \in RepoCounts(warnThreshold) :
             /\ nrepos' = n
             /\ rpc' = IF RunE_needsConfirm(n) THEN "confirm" ELSE "loop"
             /\ UNCHANGED runErr
    /\ UNCHANGED <<idx, processed, prevOutcome, consent>>
    /\ UNCHANGED <<cfgVars, passVars>>

\* the interactive confirmation above warnThreshold repositories
RunE_confirm ==
    /\ variant = "new"
    /\ rpc = "confirm"
    /\ \E ok \in BOOLEAN, err \in BOOLEAN :
          /\ consent' = (IF err THEN "err" ELSE IF ok THEN "yes" ELSE "no")
          /\ IF err \/ ~ok
             THEN RunReturn(IF err THEN "err" ELSE "nil")
             ELSE rpc' = "loop" /\ UNCHANGED runErr
    /\ UNCHANGED <<nrepos, idx, processed, prevOutcome>>
    /\ UNCHANGED <<cfgVars, passVars>>

\* for _, repo := range repositories: the next call of updateRepository, or
\* return nil after the last
RunE_loop ==
    /\ variant = "new"
    /\ rpc = "loop"
    /\ pc = "idle"
    /\ LoopStep
    /\ UNCHANGED <<nrepos, idx, prevOutcome, consent>>
    /\ UNCHANGED <<log, remoteUpdated, activeBranches, bi, failedUpdates, events, ret>>
    /\ UNCHANGED cfgVars

\* updateRepository has returned to RunE
RunE_next ==
    /\ variant = "new"
    /\ rpc = "loop"
    /\ pc = "ret"
    /\ prevOutcome' = Outcome
    /\ PassIdle
    /\ IF RunE_afterUpdate(ret) = "return"
       THEN RunReturn("err") /\ UNCHANGED idx
       ELSE idx' = idx + 1 /\ UNCHANGED <<rpc, runErr>>
    /\ UNCHANGED <<nrepos, processed, consent>>
    /\ UNCHANGED cfgVars

----------------------------------------------------------------------------
(* RunE and findRepositories of the first root.go *)

\* strings.ToLower on the letters an answer is made of
LowerChar(c) ==
    CASE c = "Y" -> "y" [] c = "E" -> "e" [] c = "S" -> "s"
      [] c = "N" -> "n" [] c = "O" -> "o" [] OTHER -> c

RECURSIVE ToLower(_)
ToLower(s) ==
    IF Len(s) = 0 THEN "" ELSE LowerChar(SubSeq(s, 1, 1)) \o ToLower(SubSeq(s, 2, Len(s)))

\* strings.Trim(s, " ")
RECURSIVE Trim(_)
Trim(s) ==
    IF Len(s) = 0 THEN s
    ELSE IF SubSeq(s, 1, 1) = " " THEN Trim(SubSeq(s, 2, Len(s)))
    ELSE IF SubSeq(s, Len(s), Len(s)) = " " THEN Trim(SubSeq(s, 1, Len(s) - 1))
    ELSE s

\* what the user may type at the prompt
Answers == {"yes", "Yes", "YES", "no", "y", ""}

\* what RunE does with the error updateRepository returned: it returns it
v1_RunE_afterUpdate(err) == IF err # "nil" THEN "return" ELSE "continue"

\* expandPathWithTilde and findRepositories up to the threshold test
v1_findRepositories ==
    /\ variant = "v1"
    /\ rpc = "find"
    /\ \/ /\ RunReturn("err")
          /\ UNCHANGED nrepos
       \/ \E n \in RepoCounts(v1_warnThreshold) :
             /\ nrepos' = n
             /\ IF n = 0 THEN RunReturn("nil")
                ELSE /\ rpc' = IF n > v1_warnThreshold THEN "confirm" ELSE "loop"
                     /\ UNCHANGED runErr
    /\ UNCHANGED <<idx, processed, prevOutcome, consent>>
    /\ UNCHANGED <<cfgVars, passVars>>

\* findRepositories: the prompt above warnThreshold repositories
v1_findRepositories_confirm ==
    /\ variant = "v1"
    /\ rpc = "confirm"
    /\ \/ consent' = "err" /\ RunReturn("err")
       \/ \E answer \in Answers :
             IF Trim(ToLower(answer)) # "yes"
             THEN consent' = "no" /\ RunReturn("nil")
             ELSE consent' = "yes" /\ rpc' = "loop" /\ UNCHANGED runErr
    /\ UNCHANGED <<nrepos, idx, processed, prevOutcome>>
    /\ UNCHANGED <<cfgVars, passVars>>

\* for _, repository := range repositories
v1_RunE_loop ==
    /\ variant = "v1"
    /\ rpc = "loop"
    /\ pc = "idle"
    /\ LoopStep
    /\ UNCHANGED <<nrepos, idx, prevOutcome, consent>>
    /\ UNCHANGED <<log, remoteUpdated, activeBranches, bi, failedUpdates, events, ret>>
    /\ UNCHANGED cfgVars

\* updateRepository has returned to RunE
v1_RunE_next ==
    /\ variant = "v1"
    /\ rpc = "loop"
    /\ pc = "ret"
    /\ prevOutcome' = Outcome
    /\ PassIdle
    /\ IF v1_RunE_afterUpdate(ret) = "return"
       THEN RunReturn("err") /\ UNCHANGED idx
       ELSE idx' = idx + 1 /\ UNCHANGED <<rpc, runErr>>
    /\ UNCHANGED <<nrepos, processed, consent>>
    /\ UNCHANGED cfgVars

----------------------------------------------------------------------------
(* Specification of a whole run *)

InitRun ==
    /\ variant \in {"new", "v1"}
    /\ stashChanges \in BOOLEAN
    /\ allBranches \in BOOLEAN
    /\ requestedBranches \in RunBranchFlags
    /\ rpc = "find"
    /\ nrepos = 0
    /\ idx = 1
    /\ processed = <<>>
    /\ prevOutcome = "none"
    /\ consent = "unasked"
    /\ runErr = "none"
    /\ pc = "idle"
    /\ log = <<>>
    /\ remoteUpdated = FALSE
    /\ activeBranches = <<>>
    /\ bi = 0
    /\ failedUpdates = <<>>
    /\ events = <<>>
    /\ ret = "none"

NextRun ==
    \/ RunE_findRepositories
    \/ RunE_confirm
    \/ RunE_loop
    \/ RunE_next
    \/ v1_findRepositories
    \/ v1_findRepositories_confirm
    \/ v1_RunE_loop
    \/ v1_RunE_next
    \/ updateRepository_start
    \/ stashIfDirty_status
    \/ stashIfDirty_stash
    \/ fetchBranchesToUpdate_fetch
    \/ fetchBranchesToUpdate_list(RunListings)
    \/ updateBranch_checkout
    \/ updateBranch_pull
    \/ v1_updateRepository_start
    \/ repository_IsDirty
    \/ repository_Stash
    \/ v1_updateRepository_fetch
    \/ repository_GetAllBranches_updateRemote
    \/ repository_GetAllBranches_list(RunListings)
    \/ repository_Update_updateRemote
    \/ repository_updateBranch_checkout
    \/ repository_updateBranch_pull

SpecRun == InitRun /\ [][NextRun]_vars

----------------------------------------------------------------------------
(* Specification of the branch listing step alone, over noisy listings *)

InitBranches ==
    /\ variant \in {"new", "v1"}
    /\ stashChanges = FALSE
    /\ allBranches \in BOOLEAN
    /\ variant = "v1" => allBranches
    /\ requestedBranches \in BranchFlags
    /\ rpc = "loop"
    /\ nrepos = 1
    /\ idx = 1
    /\ processed = <<1>>
    /\ prevOutcome = "none"
    /\ consent = "unasked"
    /\ runErr = "none"
    /\ pc = (IF variant = "new" THEN "list" ELSE "getall_list")
    /\ log = (IF variant = "new"
              THEN <<Cmd("stashIfDirty", "status", "", TRUE, ""),
                     Cmd("fetchBranchesToUpdate", "fetch", "", TRUE, "")>>
              ELSE <<Cmd("IsDirty", "status", "", TRUE, ""),
                     Cmd("updateRepository", "fetch", "", TRUE, ""),
                     Cmd("updateRemote", "fetch", "", TRUE, "")>>)
    /\ remoteUpdated = FALSE
    /\ activeBranches = <<>>
    /\ bi = 0
    /\ failedUpdates = <<>>
    /\ events = <<Ev("start", 0, 0, <<>>)>>
    /\ ret = "none"

NextBranches ==
    \/ fetchBranchesToUpdate_list(RawListings)
    \/ repository_GetAllBranches_list(RawListings)

SpecBranches == InitBranches /\ [][NextBranches]_vars

----------------------------------------------------------------------------
(* Reading the trace *)

Last(s) == s[Len(s)]

Indices(s) == [i \in 1..Len(s) |-> i]

CountOp(o) == Cardinality({i \in 1..Len(log) : log[i].op = o})

\* the arguments of the checkouts issued, in order
Checkouts ==
    LET cs == SelectSeq(log, LAMBDA c : c.op = "checkout")
    IN  [i \in 1..Len(cs) |-> cs[i].arg]

\* the branches whose checkout failed or whose pull failed, in order
FailedInLog ==
    LET bad(i) == /\ log[i].op = "checkout"
                  /\ \/ ~log[i].ok
                     \/ i < Len(log) /\ log[i + 1].op = "pull" /\ ~log[i + 1].ok
        is == SelectSeq(Indices(log), bad)
    IN  [k \in 1..Len(is) |-> log[is[k]].arg]

\* the status query ran and reported a dirty working tree
StatusDirty == Len(log) >= 1 /\ log[1].op = "status" /\ log[1].ok /\ log[1].out # ""

\* the branch listing ran and succeeded; Raw is its output
ListingDone == \E i \in 1..Len(log) : log[i].op = "branch" /\ log[i].ok

Raw == log[CHOOSE i \in 1..Len(log) : log[i].op = "branch" /\ log[i].ok].out

\* a line the listing filter is said to discard: empty, a refs/, heads/ or
\* origin/ prefix, or any whitespace character in it
Whitespace == {" ", "\t", "\r"}

SaidNoise(line) ==
    \/ line = ""
    \/ HasPrefix(line, "refs/")
    \/ HasPrefix(line, "heads/")
    \/ HasPrefix(line, "origin/")
    \/ \E i \in 1..Len(line) : SubSeq(line, i, i) \in Whitespace

\* the filtered local-branch list of a listing output
SaidFiltered(output) == SelectSeq(Split(output), LAMBDA line : ~SaidNoise(line))

----------------------------------------------------------------------------
(* Claims *)

\* C1: once updateRepository has returned after attempting a branch, the
\* checkouts issued are exactly the selected branches, in the selection's order:
\* no failure of a branch keeps a later branch from being attempted.
C1_EveryBranchAttempted ==
    (pc = "ret" /\ CountOp("checkout") > 0) => Checkouts = activeBranches

\* C2: updateRepository is called on the repositories 1, 2, ... in order, each
\* once, and a run that got past discovery and the confirmation has called it on
\* every discovered repository when RunE returns, whatever their outcomes.
C2_EveryRepositoryProcessed ==
    /\ processed = Indices(processed)
    /\ (rpc = "returned" /\ consent \in {"unasked", "yes"}) => Len(processed) = nrepos

\* C3: from the loop over the repositories, that is after discovery succeeded
\* and the confirmation (if any) was given, the current RunE only ever returns
\* nil, and only after every repository was processed.
C3_RunSucceeds ==
    [][(variant = "new" /\ rpc = "loop" /\ rpc' = "returned")
          => (runErr' = "nil" /\ Len(processed') = nrepos)]_vars

\* C3 witness: a run of two or more repositories returned nil although the
\* last repository failed.
C3_Witness ==
    /\ variant = "new"
    /\ rpc = "returned"
    /\ runErr = "nil"
    /\ nrepos >= 2
    /\ Len(processed) = nrepos
    /\ prevOutcome = "Failed"

\* C4: when the current updateRepository returns after its loop over n selected
\* branches, n > 0, of which f failed, the report is fail when f = n, warning
\* with n - f succeeded and the failed names in selection order when 0 < f < n,
\* and success over n when f = 0.
C4_Aggregation ==
    (variant = "new" /\ pc = "ret" /\ ret = "nil") =>
        LET n == Len(activeBranches)
            f == Len(FailedInLog)
        IN  /\ n > 0
            /\ IF f = n THEN Last(events).kind = "fail" /\ Outcome = "Failed"
               ELSE IF f > 0
                    THEN /\ Last(events) = Ev("warning", n - f, n, FailedInLog)
                         /\ Outcome = "Partial"
                    ELSE /\ Last(events) = Ev("success", n, n, <<>>)
                         /\ Outcome = "Success"

\* C4 witness: three selected branches all failed, one of them in the pull.
C4_Witness ==
    /\ variant = "new"
    /\ pc = "ret"
    /\ ret = "nil"
    /\ Len(activeBranches) = 3
    /\ Len(FailedInLog) = 3
    /\ \E i \in 1..Len(log) : log[i].op = "pull" /\ ~log[i].ok

\* C5: a repository whose status query reports changes while stashing is
\* disabled is Skipped, and the status query is the only git command issued
\* for it.
C5_DirtySkipped ==
    (StatusDirty /\ ~stashChanges) =>
        (pc = "ret" /\ Outcome = "Skipped" /\ Len(log) = 1)

\* C5 witness: a dirty repository was skipped.
C5_Witness ==
    /\ StatusDirty
    /\ ~stashChanges
    /\ pc = "ret"
    /\ log = <<log[1]>>

\* C6: for a repository whose status query reports changes while stashing is
\* enabled, git stash is the command right after the status query and is issued
\* once; every fetch, listing, checkout and pull comes after it; after a
\* successful stash the next command is the fetch, and when no command before
\* the branch updates fails and the selection is not empty, branches are updated.
C6_StashOnceBeforeFetch ==
    (StatusDirty /\ stashChanges) =>
        /\ \/ pc = "stash" /\ Len(log) = 1
           \/ Len(log) >= 2 /\ log[2].op = "stash"
        /\ CountOp("stash") <= 1
        /\ \A i \in 1..Len(log) :
              log[i].op \in {"fetch", "branch", "checkout", "pull"}
                  => \E j \in 1..(i - 1) : log[j].op = "stash"
        /\ (pc = "ret" /\ log[2].ok) => (Len(log) >= 3 /\ log[3].op = "fetch")
        /\ ( /\ pc = "ret"
             /\ Len(activeBranches) > 0
             /\ \A i \in 1..Len(log) : log[i].op \notin {"checkout", "pull"} => log[i].ok )
              => CountOp("checkout") > 0

\* C6 witness: a dirty repository was stashed and a branch of it then pulled.
C6_Witness ==
    /\ StatusDirty
    /\ stashChanges
    /\ pc = "ret"
    /\ CountOp("stash") = 1
    /\ \E i \in 1..Len(log) : log[i].op = "pull" /\ log[i].ok

\* C7: after a call of repository.updateRemote whose fetch succeeded, no later
\* call on the same repository value runs a fetch: the calls of updateRemote on
\* one repository value issue at most one successful fetch, and none after it.
C7_FetchRemoteMemoized ==
    \A i \in 1..Len(log) :
        (log[i].by = "updateRemote" /\ log[i].ok) =>
            \A j \in (i + 1)..Len(log) : log[j].by # "updateRemote"

\* C8: with an explicit branch list, the selection made from a listing is the
\* sub-sequence of the filtered listing whose names are requested: each such
\* branch once, in the listing's order.
C8_ExplicitSelection ==
    (~allBranches /\ ListingDone) =>
        activeBranches =
            SelectSeq(SaidFiltered(Raw), LAMBDA b : b \in Range(requestedBranches))

\* C9: in the current updateRepository, when the selection computed from a
\* listing is empty, the pass has returned errNoBranch with the NO-BRANCH
\* report (Skipped) and without any checkout or pull; and a pass that reports
\* the result of its loop has selected at least one branch.
C9_EmptySelection ==
    variant = "new" =>
        /\ (ListingDone /\ Len(branchesListLoop(<<>>, Split(Raw))) = 0) =>
              /\ pc = "ret"
              /\ ret = "errNoBranch"
              /\ Last(events).kind = "nobranch"
              /\ Outcome = "Skipped"
              /\ CountOp("checkout") = 0
              /\ CountOp("pull") = 0
        /\ (pc \in {"checkout", "pull"} \/ ret = "nil") => Len(activeBranches) > 0

\* C9 witness: a listing with branches, none of them selected.
C9_Witness ==
    /\ variant = "new"
    /\ ListingDone
    /\ Raw # ""
    /\ ret = "errNoBranch"

\* C10: with all branches selected, the branches kept from a listing are exactly
\* its lines that are not empty, do not begin with refs/, heads/ or origin/ and
\* hold no whitespace character, unchanged and in listing order.
C10_ListingFilter ==
    (allBranches /\ ListingDone) => activeBranches = SaidFiltered(Raw)

\* C11: updateBranch runs git checkout <branch> first and git pull second. A
\* pull is only ever the command right after a successful checkout of a selected
\* branch; a successful checkout is followed by the pull; after a failed
\* checkout no pull is issued for that branch and the failure is reported to
\* the caller (the branch is recorded as failed, or Update returns the error).
C11_CheckoutThenPull ==
    /\ \A i \in 1..Len(log) :
          log[i].op = "pull" =>
              /\ i > 1
              /\ log[i - 1].op = "checkout"
              /\ log[i - 1].ok
    /\ \A i \in 1..Len(log) :
          log[i].op = "checkout" =>
              /\ log[i].arg \in Range(activeBranches)
              /\ IF log[i].ok
                 THEN IF i = Len(log) THEN pc = "pull" ELSE log[i + 1].op = "pull"
                 ELSE /\ i < Len(log) => log[i + 1].op # "pull"
                      /\ IF variant = "new"
                         THEN log[i].arg \in Range(failedUpdates)
                         ELSE i = Len(log) /\ pc = "ret" /\ ret \notin {"none", "nil"}

\* C11 witness: a checkout failed, and a later branch of the same repository
\* was checked out and pulled.
C11_Witness ==
    \E i \in 1..Len(log) :
        /\ log[i].op = "checkout"
        /\ ~log[i].ok
        /\ \E j \in (i + 1)..Len(log) : log[j].op = "pull"

\* the reports that end a repository's spinner
TerminalKinds == {"skipped", "nobranch", "fail", "warning", "success"}

Threshold == IF variant = "new" THEN warnThreshold ELSE v1_warnThreshold

\* C13: when more repositories than the threshold were found, no repository is
\* processed before the user confirmed; after a declined confirmation the run
\* has returned nil with no repository processed; and a confirmation is only
\* ever requested above the threshold: at or below it the loop is entered
\* unasked.
C13_ConfirmationGate ==
    /\ (nrepos > Threshold /\ Len(processed) > 0) => consent = "yes"
    /\ rpc = "confirm" => (nrepos > Threshold /\ processed = <<>> /\ pc = "idle")
    /\ consent = "no" =>
          (rpc = "returned" /\ runErr = "nil" /\ processed = <<>> /\ pc = "idle")
    /\ consent # "unasked" => nrepos > Threshold
    /\ rpc = "loop" => (IF nrepos > Threshold THEN consent = "yes" ELSE consent = "unasked")

\* C13 witness: one repository more than the threshold was found and the user
\* declined.
C13_Witness ==
    /\ nrepos = Threshold + 1
    /\ consent = "no"
    /\ rpc = "returned"
    /\ runErr = "nil"
    /\ processed = <<>>

\* C14: with --all-branches the selection is the whole filtered local-branch
\* list of the listing, name for name in the listing's order, whatever names
\* were requested with --branch.
C14_AllBranchesSelection ==
    (allBranches /\ ListingDone) =>
        LET full == SaidFiltered(Raw) IN
        /\ Len(activeBranches) = Len(full)
        /\ \A k \in 1..Len(full) : activeBranches[k] = full[k]

\* the status query ran and reported a clean working tree
StatusClean == Len(log) >= 1 /\ log[1].op = "status" /\ log[1].ok /\ log[1].out = ""

\* C15: for a repository whose status query returns empty output git stash is
\* never run, with stashing enabled or not: the pass goes on to the fetch.
C15_CleanNeverStashed ==
    StatusClean =>
        /\ CountOp("stash") = 0
        /\ pc # "stash"
        /\ Len(log) >= 2 => log[2].op = "fetch"

\* C15 witness: with stashing enabled a clean repository went through to a pull
\* without a stash.
C15_Witness ==
    /\ StatusClean
    /\ stashChanges
    /\ pc = "ret"
    /\ CountOp("stash") = 0
    /\ \E i \in 1..Len(log) : log[i].op = "pull" /\ log[i].ok

\* the commands of kind o that failed
Failures(o) == {i \in 1..Len(log) : log[i].op = o /\ ~log[i].ok}

\* C16, as stated: the error updateBranch returns tells which step failed, so
\* the error of a failed checkout is never the error of a failed pull.
C16_StepIdentified ==
    \A i \in Failures("checkout"), j \in Failures("pull") : log[i].err # log[j].err

\* C16, amended: when updateBranch fails, the error it returns is the error of
\* the subprocess that failed, as Run returned it: it is non-nil and is the exit
\* status text, whichever of the two steps it comes from; repository.Update and
\* the first updateRepository hand it on unchanged.
C16_ErrorIsExitStatus ==
    /\ \A i \in 1..Len(log) :
          log[i].by = "updateBranch" =>
              log[i].err = (IF log[i].code = 0 THEN "nil" ELSE ExitError(log[i].code))
    /\ (variant = "v1" /\ pc = "ret" /\ Len(log) > 0
          /\ Last(log).by = "updateBranch" /\ ~Last(log).ok) => ret = Last(log).err

\* C16 witness: a checkout and a pull of one repository failed with the same
\* error.
C16_Witness ==
    \E i \in Failures("checkout"), j \in Failures("pull") :
        /\ log[i].err = log[j].err
        /\ log[i].err = "exit status 1"

\* what git stash list shows for the entry a successful stash command made:
\* git's own "WIP on <branch>: <commit>" when the command carries no message,
\* and "On <branch>: <message>" when it does
StashDescription(c) ==
    IF c.arg = "" THEN "WIP on master: 1a2b3c4 init" ELSE "On master: " \o c.arg

\* C17: every stash entry the tool creates is labelled as its own: its
\* description in the stash list contains "dirupdate".
C17_StashLabelled ==
    \A i \in 1..Len(log) :
        (log[i].op = "stash" /\ log[i].ok) => Contains(StashDescription(log[i]), "dirupdate")

\* C18: a failure of the status query, the stash, the fetch or the branch
\* listing ends the pass: it is the last command issued for the repository
\* (no stash, fetch, listing, checkout or pull follows it), the pass has
\* returned, and the repository is reported Failed.
C18_PreUpdateFailureStops ==
    \A i \in 1..Len(log) :
        (log[i].op \in {"status", "stash", "fetch", "branch"} /\ ~log[i].ok) =>
            /\ i = Len(log)
            /\ pc = "ret"
            /\ ret \notin {"none", "nil", "errStashNotAllowed", "errNoBranch"}
            /\ Outcome = "Failed"
            /\ variant = "new" => Last(events).kind = "fail"

\* C18 witness: the listing failed after a successful stash and fetch, and the
\* repository was reported failed without any checkout.
C18_Witness ==
    /\ variant = "new"
    /\ Len(log) = 4
    /\ log[2].op = "stash"
    /\ log[4].op = "branch"
    /\ ~log[4].ok
    /\ pc = "ret"
    /\ Outcome = "Failed"

\* C19: in one pass over one repository git fetch --all is run at most once,
\* in both selection modes: no fetch follows a fetch that succeeded.
C19_OneFetchPerPass ==
    /\ CountOp("fetch") <= 1
    /\ \A i \in 1..Len(log) :
          (log[i].op = "fetch" /\ log[i].ok) =>
              \A j \in (i + 1)..Len(log) : log[j].op # "fetch"

\* C20: every checkout is of a branch that occurs in the filtered local-branch
\* listing this pass obtained from the same repository before it: a name that
\* was only requested is never checked out.
C20_CheckoutOnlyListed ==
    \A i \in 1..Len(log) :
        log[i].op = "checkout" =>
            \E j \in 1..(i - 1) :
                /\ log[j].op = "branch"
                /\ log[j].ok
                /\ log[i].arg \in Range(SaidFiltered(log[j].out))

====
